---- MODULE Spec2Model ----
(***************************************************************************)
(* Model of futbol24-python: the model records of futbol24/models.py       *)
(* (construction from a dictionary, dictionary projection, equality) and   *)
(* the API client of futbol24/api.py (HTTP response checks, the           *)
(* cross-reference join, the client's configuration, URL building and      *)
(* requests, the slug of a name and the team page).                        *)
(***************************************************************************)
EXTENDS Integers, Sequences, FiniteSets, TLC

(***************************************************************************)
(* Python values.  Every value is a record tagged by its kind k.  A dict   *)
(* (and an instance's attribute dictionary) is the sequence of its         *)
(* key/value pairs in insertion order.                                     *)
(***************************************************************************)
PyNone == [k |-> "none"]
PyBool(b) == [k |-> "bool", b |-> b]
PyInt(n) == [k |-> "int", n |-> n]
PyStr(s) == [k |-> "str", s |-> s]
PyList(xs) == [k |-> "list", items |-> xs]
PyDict(kv) == [k |-> "dict", kv |-> kv]
PyObj(c, attrs) == [k |-> "obj", cls |-> c, attrs |-> attrs]

KV(key, val) == [key |-> key, val |-> val]

Elems(xs) == {xs[i] : i \in 1..Len(xs)}

Keys(kv) == {kv[i].key : i \in 1..Len(kv)}

HasKey(kv, key) == \E i \in 1..Len(kv) : kv[i].key = key

\* dict.get(key, default)
Get(kv, key, default) ==
    IF HasKey(kv, key)
    THEN kv[CHOOSE i \in 1..Len(kv) : kv[i].key = key].val
    ELSE default

\* d[key] = val : an existing key keeps its position, a new key is appended
Put(kv, key, val) ==
    IF HasKey(kv, key)
    THEN [i \in 1..Len(kv) |-> IF kv[i].key = key THEN KV(key, val) ELSE kv[i]]
    ELSE Append(kv, KV(key, val))

\* del d[key] / delattr(obj, key), for a key that is present
Del(kv, key) == SelectSeq(kv, LAMBDA e : e.key # key)

\* bool(v): None, False, 0, "", [] and {} are falsy; a BaseModel instance
\* defines neither __bool__ nor __len__ and is always truthy
Truthy(v) ==
    CASE v.k = "none" -> FALSE
      [] v.k = "bool" -> v.b
      [] v.k = "int" -> v.n # 0
      [] v.k = "str" -> v.s # ""
      [] v.k \in {"list", "tuple", "set"} -> v.items # <<>>
      [] v.k = "dict" -> v.kv # <<>>
      [] v.k = "obj" -> TRUE

(***************************************************************************)
(* futbol24/models.py                                                      *)
(***************************************************************************)
Classes == {"Status", "Range", "Country", "Competition", "League", "Team", "Match"}

\* the param_defaults literal of each class, in source order
param_defaults(c) ==
    CASE c = "Status" ->
           << KV("update_countries", PyNone), KV("update_competitions", PyNone),
              KV("update_seasons", PyNone), KV("update_leagues", PyNone),
              KV("update_teams", PyNone), KV("update_matches", PyNone) >>
      [] c = "Range" ->
           << KV("date_d", PyNone), KV("date_m", PyNone), KV("type", PyNone),
              KV("hour_new_day", PyNone), KV("hour", PyNone), KV("day", PyNone),
              KV("day_s", PyNone), KV("start", PyNone), KV("start_s", PyNone),
              KV("end", PyNone), KV("end_s", PyNone) >>
      [] c = "Country" ->
           << KV("id", PyNone), KV("national", PyBool(FALSE)), KV("name", PyNone),
              KV("sname", PyNone), KV("flag_url_medium", PyNone),
              KV("updated", PyNone) >>
      [] c = "Competition" ->
           << KV("id", PyNone), KV("country_id", PyNone), KV("popularity", PyNone),
              KV("name", PyNone), KV("foreground", PyNone), KV("background", PyNone),
              KV("standings", PyBool(FALSE)), KV("available_standings", PyBool(FALSE)),
              KV("updated", PyNone) >>
      [] c = "League" ->
           << KV("id", PyNone), KV("competition_id", PyNone), KV("season_id", PyNone),
              KV("name", PyNone), KV("dname", PyNone), KV("foreground", PyNone),
              KV("background", PyBool(FALSE)), KV("standings", PyBool(FALSE)),
              KV("available_standings", PyNone), KV("updated", PyNone) >>
      [] c = "Team" ->
           << KV("id", PyNone), KV("country_id", PyNone), KV("name", PyNone),
              KV("sname", PyNone), KV("updated", PyNone) >>
      [] c = "Match" ->
           << KV("id", PyNone), KV("league_id", PyNone), KV("start_date", PyNone),
              KV("end_date", PyNone), KV("start_offset", PyNone),
              KV("half_length", PyNone), KV("half_offset", PyNone),
              KV("status_id", PyNone), KV("minutes", PyNone), KV("playnow", PyNone),
              KV("injury", PyNone), KV("home", PyNone), KV("guest", PyNone),
              KV("available_mask", PyNone), KV("updated_actions", PyNone),
              KV("updated_events_play", PyNone), KV("updated", PyNone) >>

\* cls.__init__(self, **kwargs): every field of param_defaults is set to
\* kwargs.get(param, default); other keyword arguments are not stored
__init__(c, kwargs) ==
    LET pd == param_defaults(c)
    IN  PyObj(c, [i \in 1..Len(pd) |-> KV(pd[i].key, Get(kwargs, pd[i].key, pd[i].val))])

\* getattr(self, key, None)
getattr(self, key) == Get(self.attrs, key, PyNone)

\* getattr(x, 'as_dict', None) is truthy exactly for BaseModel instances
HasAsDict(v) == v.k = "obj"

\* BaseModel.as_dict: the projection as a key/value sequence
RECURSIVE as_dict(_)
as_dict(self) ==
    LET pd == param_defaults(self.cls)
        Item(subobj) == IF HasAsDict(subobj) THEN PyDict(as_dict(subobj)) ELSE subobj
        Entry(key) ==
            LET value == getattr(self, key)
            IN  IF value.k \in {"list", "tuple", "set"}
                THEN << KV(key, PyList([i \in 1..Len(value.items) |-> Item(value.items[i])])) >>
                ELSE IF HasAsDict(value)
                THEN << KV(key, PyDict(as_dict(value))) >>
                ELSE IF Truthy(value)
                THEN << KV(key, value) >>
                ELSE << >>
        RECURSIVE Build(_)
        Build(i) == IF i > Len(pd) THEN << >> ELSE Entry(pd[i].key) \o Build(i + 1)
    IN  Build(1)

\* the numeric value of an int or a bool (True == 1, False == 0)
Num(v) == IF v.k = "bool" THEN (IF v.b THEN 1 ELSE 0) ELSE v.n

\* Python's == on values, and BaseModel.__eq__: `other and self.as_dict() ==
\* other.as_dict()`, taken as a truth value.  A truthy `other` that is no
\* BaseModel raises AttributeError in Python: the CASE has no arm for it.
RECURSIVE PyEq(_, _), __eq__(_, _)
PyEq(a, b) ==
    CASE a.k = "obj" -> __eq__(a, b)
      [] a.k # "obj" /\ b.k = "obj" -> __eq__(b, a)
      [] a.k # "obj" /\ b.k # "obj" ->
           IF a.k \in {"bool", "int"} /\ b.k \in {"bool", "int"} THEN Num(a) = Num(b)
           ELSE IF a.k # b.k THEN FALSE
           ELSE CASE a.k = "none" -> TRUE
                  [] a.k = "str" -> a.s = b.s
                  [] a.k \in {"list", "tuple"} ->
                       /\ Len(a.items) = Len(b.items)
                       /\ \A i \in 1..Len(a.items) : PyEq(a.items[i], b.items[i])
                  [] a.k = "dict" ->
                       /\ Keys(a.kv) = Keys(b.kv)
                       /\ \A key \in Keys(a.kv) :
                              PyEq(Get(a.kv, key, PyNone), Get(b.kv, key, PyNone))

__eq__(self, other) ==
    IF ~Truthy(other) THEN FALSE
    ELSE CASE other.k = "obj" -> PyEq(PyDict(as_dict(self)), PyDict(as_dict(other)))

\* BaseModel.__ne__
__ne__(self, other) == ~__eq__(self, other)

\* for key, val in kwargs.items(): data[key] = val
RECURSIVE Update(_, _)
Update(data, kwargs) ==
    IF kwargs = << >> THEN data
    ELSE Update(Put(data, Head(kwargs).key, Head(kwargs).val), Tail(kwargs))

\* the outcome of a call: a returned value, or a raised exception and its
\* message
Return(v) == [exc |-> "none", msg |-> PyNone, val |-> v]
Raise(e, m) == [exc |-> e, msg |-> m, val |-> PyNone]

\* BaseModel.new_from_json_dict: cls(**data).  The call binds the instance
\* to the parameter `self` of __init__(self, **kwargs), so a key "self" in
\* data is a second value for that parameter and the call raises TypeError.
new_from_json_dict(c, data, kwargs) ==
    LET merged == Update(data, kwargs)
    IN  IF HasKey(merged, "self")
        THEN Raise("TypeError", PyStr("got multiple values for argument 'self'"))
        ELSE Return(__init__(c, merged))

(***************************************************************************)
(* futbol24/api.py: the cross-reference join                               *)
(***************************************************************************)
\* the filter with its id test left out: every entity passes
FilterById_NoTest(xs, ident) == xs

\* the filter with its result in reverse list order
FilterById_Reversed(xs, ident) ==
    LET found == SelectSeq(xs, LAMBDA x : PyEq(getattr(x, "id"), ident))
    IN  [i \in 1..Len(found) |-> found[Len(found) + 1 - i]]

\* list(filter(lambda x: x.id == ident, xs))
FilterById(xs, ident) == SelectSeq(xs, LAMBDA x : PyEq(getattr(x, "id"), ident))

\* the three statements shared by _map_competitions, _map_leagues and
\* _map_teams: found = list(filter(...))[0]; delattr(obj, fk);
\* setattr(obj, attr, found).  Indexing an empty list raises IndexError.
Resolve(obj, fk, attr, refs) ==
    LET found == FilterById(refs, getattr(obj, fk))
    IN  IF found = << >>
        THEN Raise("IndexError", PyStr("list index out of range"))
        ELSE Return(PyObj(obj.cls, Put(Del(obj.attrs, fk), attr, found[1])))

\* the statements `x = e` followed by the rest of the function: an exception
\* raised by e ends the function, else the rest runs with the value of e
Try(out, rest(_)) == IF out.exc # "none" THEN out ELSE rest(out.val)

_map_competitions(competition, countries) ==
    Try(new_from_json_dict("Competition", competition, << >>), LAMBDA made :
    Resolve(made, "country_id", "country", countries))

_map_leagues(league, competitions) ==
    Try(new_from_json_dict("League", league, << >>), LAMBDA made :
    Resolve(made, "competition_id", "competition", competitions))

_map_teams(team, countries) ==
    Try(new_from_json_dict("Team", team, << >>), LAMBDA made :
    Resolve(made, "country_id", "country", countries))

\* the team statements of _map_matches for one side (home or guest):
\* list(filter(lambda team: team.id == side.get('team_id', -1), teams))[0];
\* del side['team_id']; side['team'] = found.  The lambda runs once per
\* team, so a side that is no dict raises AttributeError only when teams is
\* not empty; an empty filter result raises IndexError; deleting a key the
\* side does not hold raises KeyError.
ResolveSide(match, side, teams) ==
    LET d == getattr(match, side)
    IN  IF teams = << >>
        THEN Raise("IndexError", PyStr("list index out of range"))
        ELSE IF d.k # "dict"
        THEN Raise("AttributeError", PyStr("object has no attribute 'get'"))
        ELSE LET found == FilterById(teams, Get(d.kv, "team_id", PyInt(-1)))
             IN  IF found = << >>
                 THEN Raise("IndexError", PyStr("list index out of range"))
                 ELSE IF ~HasKey(d.kv, "team_id")
                 THEN Raise("KeyError", PyStr("team_id"))
                 ELSE Return(PyObj(match.cls,
                          Put(match.attrs, side,
                              PyDict(Put(Del(d.kv, "team_id"), "team", found[1])))))

_map_matches(match, leagues, teams) ==
    Try(new_from_json_dict("Match", match, << >>), LAMBDA made :
    Try(Resolve(made, "league_id", "league", leagues), LAMBDA withLeague :
    Try(ResolveSide(withLeague, "home", teams), LAMBDA withHome :
    ResolveSide(withHome, "guest", teams))))

(***************************************************************************)
(* futbol24/api.py: HTTP responses and the public operations               *)
(***************************************************************************)
\* a string built by str.format: the concatenation of its parts, each the
\* text of a value
Fmt(parts) == [k |-> "fmt", parts |-> parts]

\* requests.Response.ok as read by `if not response.ok`: raise_for_status()
\* raises for 400 <= status_code < 600 only
ok(response) == ~(400 <= response.status_code /\ response.status_code < 600)

\* response.content.decode(encoding)
decode(content) ==
    IF content.kind = "undecodable"
    THEN Raise("UnicodeDecodeError", PyStr("invalid start byte"))
    ELSE Return(content)

\* json.loads(json_data) of a str: the parsed document, or JSONDecodeError
loads(text) ==
    IF text.kind = "json"
    THEN Return(text.json)
    ELSE Raise("JSONDecodeError", PyStr("Expecting value"))

\* the exceptions the handler `except TypeError or json.JSONDecodeError:`
\* catches: the expression `A or B` of two classes evaluates to A
ExceptClause == {"TypeError"}

_parse_and_check_http_response(response) ==
    IF ~ok(response)
    THEN Raise("Futbol24Error",
               PyDict(<< KV("message", Fmt(<< PyStr("Error "),
                                              PyInt(response.status_code), PyStr(" "),
                                              PyStr(response.reason) >>)) >>))
    ELSE LET json_data == decode(response.content)
         IN  IF json_data.exc # "none" THEN json_data
             ELSE LET parsed == loads(json_data.val)
                  IN  IF parsed.exc \in ExceptClause
                      THEN Raise("Futbol24Error",
                                 PyDict(<< KV("message", PyStr("Invalid JSON content")) >>))
                      ELSE parsed

\* data.get('result', {}).get(kind, {}).get('list', [])
EnvelopeList(data, kind) ==
    LET items == Get(Get(Get(data.kv, "result", PyDict(<< >>)).kv, kind,
                         PyDict(<< >>)).kv, "list", PyList(<< >>)).items
    IN  [i \in 1..Len(items) |-> items[i].kv]

\* calls made one after the other where a call that raises is left out
InOrder_Skip(outs) ==
    LET passed == SelectSeq(outs, LAMBDA o : o.exc = "none")
    IN  Return([i \in 1..Len(passed) |-> passed[i].val])

\* the outcome of calls made one after the other: the first exception
\* raised ends them, else the list of their values
InOrder(outs) ==
    LET failed == {i \in 1..Len(outs) : outs[i].exc # "none"}
    IN  IF failed # {}
        THEN outs[CHOOSE i \in failed : \A j \in failed : i <= j]
        ELSE Return([i \in 1..Len(outs) |-> outs[i].val])

\* list(map(F, xs))
MapList(F(_), xs) == InOrder([i \in 1..Len(xs) |-> F(xs[i])])

\* the Matches container (imported by api.py, absent from models.py): the
\* ordered collection of its matches
Matches(matches) == [k |-> "matches", items |-> matches]

NewCountry(country) == new_from_json_dict("Country", country, << >>)

\* the parsing part of get_countries
countries_of(data) == MapList(NewCountry, EnvelopeList(data, "countries"))

\* the parsing part of get_competitions
competitions_of(data) ==
    Try(countries_of(data), LAMBDA countries :
    MapList(LAMBDA competition : _map_competitions(competition, countries),
            EnvelopeList(data, "competitions")))

\* the parsing part of get_teams
teams_of(data) ==
    Try(countries_of(data), LAMBDA countries :
    MapList(LAMBDA team : _map_teams(team, countries), EnvelopeList(data, "teams")))

\* the parsing part of get_daily_matches and get_team_matches: countries,
\* competitions, leagues, teams, matches, in this order
matches_of(data) ==
    Try(competitions_of(data), LAMBDA competitions :
    Try(MapList(LAMBDA league : _map_leagues(league, competitions),
                EnvelopeList(data, "leagues")), LAMBDA leagues :
    Try(teams_of(data), LAMBDA teams :
    Try(MapList(LAMBDA match : _map_matches(match, leagues, teams),
                EnvelopeList(data, "matches")), LAMBDA matches :
    Return(Matches(matches))))))

\* self.base_url when the constructor gets no base_url
base_url == PyStr("http://api.futbol24.gluak.com")

\* the URL each operation requests
url_of(name, team) ==
    CASE name = "get_countries" -> Fmt(<< base_url, PyStr("/v2/countries") >>)
      [] name = "get_competitions" -> Fmt(<< base_url, PyStr("/v2/competitions") >>)
      [] name = "get_teams" -> Fmt(<< base_url, PyStr("/v2/teams") >>)
      [] name = "get_daily_matches" -> Fmt(<< base_url, PyStr("/v2/matches/day") >>)
      [] name = "get_team_matches" ->
           Fmt(<< base_url, PyStr("/v2/team/"), getattr(team, "id"), PyStr("/matches") >>)

\* an operation: one GET, then the response check, then the parsing part
get_countries(response) == Try(_parse_and_check_http_response(response), countries_of)

get_competitions(response) == Try(_parse_and_check_http_response(response), competitions_of)

get_teams(response) == Try(_parse_and_check_http_response(response), teams_of)

get_daily_matches(response) == Try(_parse_and_check_http_response(response), matches_of)

get_team_matches(team, response) == Try(_parse_and_check_http_response(response), matches_of)

(***************************************************************************)
(* futbol24/api.py: the client's configuration                             *)
(***************************************************************************)
\* self._request_headers[key] = val and the like: one field of the client,
\* a dict, gets an entry
SetEntry(self, field, key, val) == [self EXCEPT ![field] = Put(@, key, val)]

set_user_agent(self, user_agent) ==
    SetEntry(self, "_request_headers", "User-Agent", user_agent)

\* the caller's dict when it is given and not empty, else a new one
_initialize_request_headers(self, request_headers) ==
    SetEntry([self EXCEPT !._request_headers =
                 IF Truthy(request_headers) THEN request_headers.kv ELSE << >>],
             "_request_headers", "Accept", PyStr("application/json"))

_initialize_user_agent(self, user_agent) ==
    set_user_agent(self, IF user_agent = PyNone
                         THEN PyStr("Futbol24 2.30/61 (compatible)")
                         ELSE user_agent)

\* the value of the f24-asi cookie (a constant of the source)
F24Asi ==
    PyStr("f24-asi=8926cbf3b3a61be64614147d136d389f3b05a64391e2046ae2491ad152ebd2be2409e754b9aea32dc43e954a008a2fe16d4dee014a9782cc0b542edc6bc55cdd")

\* the five headers set for add_compatibility_headers, in source order
CompatHeaders(self) ==
    << KV("F24-App-Version", PyStr("2.30")), KV("F24-Device-Platform", PyStr("android")),
       KV("F24-App-Id", PyStr("1")), KV("F24-Device-Language", PyStr("slk")),
       KV("F24-Session-Auth", Get(self._cookies, "f24-asi", PyNone)) >>

RECURSIVE SetEntries(_, _, _)
SetEntries(self, field, kvs) ==
    IF kvs = << >> THEN self
    ELSE SetEntries(SetEntry(self, field, kvs[1].key, kvs[1].val), field, Tail(kvs))

_initialize_f24_headers(self, add_compatibility_headers) ==
    LET named == [self EXCEPT !._language = IF ~Truthy(@) THEN PyStr("en") ELSE @]
        baked == SetEntry(named, "_cookies", "f24-asi", F24Asi)
    IN  IF Truthy(add_compatibility_headers)
        THEN SetEntries(baked, "_request_headers", CompatHeaders(baked))
        ELSE baked

\* Api.__init__: the assignments of the constructor in source order
\* (debug_http only configures logging)
Api(a) ==
    LET fresh == [_input_encoding |-> a.input_encoding, _debug_http |-> a.debug_http,
                  _timeout |-> a.timeout, _language |-> a.language, _cookies |-> << >>,
                  _default_params |-> << >>, _request_headers |-> << >>,
                  base_url |-> PyNone]
        headed == _initialize_request_headers(fresh, a.request_headers)
        agent == _initialize_user_agent(headed, a.user_agent)
        f24 == _initialize_f24_headers(agent, a.add_compat_f24_headers)
    IN  [f24 EXCEPT !.base_url = IF a.base_url = PyNone THEN base_url ELSE a.base_url]

\* the arguments of Api() when none is given
DefaultArgs ==
    [input_encoding |-> PyStr("utf-8"), request_headers |-> PyNone, base_url |-> PyNone,
     user_agent |-> PyNone, add_compat_f24_headers |-> PyBool(FALSE),
     debug_http |-> PyBool(FALSE), timeout |-> PyNone, language |-> PyNone]

(***************************************************************************)
(* futbol24/api.py: URL building and requests.  The text of a URL is the   *)
(* sequence of its lexical tokens: names, key=value pairs and the          *)
(* delimiters "://", "/", ";", "?", "&" and "#".                           *)
(***************************************************************************)
Tok(t) == [t |-> t]
Lit(s) == [t |-> "lit", s |-> s]
Pair(key, val) == [t |-> "pair", key |-> key, val |-> val]

\* the position of the first token t of a text, past its end if there is none
FirstAt(toks, t) ==
    IF \E i \in 1..Len(toks) : toks[i].t = t
    THEN CHOOSE i \in 1..Len(toks) : toks[i].t = t /\ \A j \in 1..(i - 1) : toks[j].t # t
    ELSE Len(toks) + 1

Before(toks, i) == SubSeq(toks, 1, i - 1)
After(toks, i) == SubSeq(toks, i + 1, Len(toks))

\* text.partition(t) without the separator: << head, tail >>
Split(toks, t) == << Before(toks, FirstAt(toks, t)), After(toks, FirstAt(toks, t)) >>

\* urllib.parse.urlparse of scheme://netloc[/path][;params][?query][#fragment]:
\* the fragment is cut at the first "#", the query at the first "?", the
\* parameters at the ";", the netloc ends before the first "/"
SplitNetloc(pieces) ==
    [scheme |-> pieces[4][1],
     netloc |-> Before(pieces[4][2], FirstAt(pieces[4][2], "/")),
     path |-> SubSeq(pieces[4][2], FirstAt(pieces[4][2], "/"), Len(pieces[4][2])),
     params |-> pieces[3][2], query |-> pieces[2][2], fragment |-> pieces[1][2]]

SplitScheme(pieces) == SplitNetloc(pieces \o << Split(pieces[3][1], "://") >>)
SplitParams(pieces) == SplitScheme(pieces \o << Split(pieces[2][1], ";") >>)
SplitQuery(pieces) == SplitParams(pieces \o << Split(pieces[1][1], "?") >>)
urlparse(url) == SplitQuery(<< Split(url, "#") >>)

\* urllib.parse.urlunparse: an empty component is written without its
\* delimiter
Prefixed(t, toks) == IF toks = << >> THEN << >> ELSE << Tok(t) >> \o toks
urlunparse(u) ==
    u.scheme \o << Tok("://") >> \o u.netloc \o u.path
      \o Prefixed(";", u.params) \o Prefixed("?", u.query) \o Prefixed("#", u.fragment)

\* str(v) of a parameter key or value
IntText == << "0", "1", "2", "3", "4", "5", "6", "7", "8", "9" >>
str(v) ==
    CASE v.k = "str" -> v.s
      [] v.k = "int" /\ v.n \in 0..9 -> IntText[v.n + 1]
      [] v.k = "bool" -> IF v.b THEN "True" ELSE "False"

\* urllib.parse.quote_plus on the texts the inputs use: a space becomes
\* "+", a reserved character its percent escape
quote_plus(text) ==
    CASE text = "x y" -> "x+y"
      [] text = "x&y" -> "x%26y"
      [] OTHER -> text

RECURSIVE Join(_, _)
Join(sep, parts) ==
    IF parts = << >> THEN << >>
    ELSE IF Len(parts) = 1 THEN parts[1]
    ELSE parts[1] \o sep \o Join(sep, Tail(parts))

\* urllib.parse.urlencode(query): one quoted key=value per entry, joined with "&"
urlencode(kv) ==
    Join(<< Tok("&") >>,
         [i \in 1..Len(kv) |->
            << Pair(quote_plus(str(kv[i].key)), quote_plus(str(kv[i].val))) >>])

_encode_parameters(parameters) ==
    IF parameters = PyNone THEN Return(PyNone)
    ELSE IF parameters.k # "dict"
    THEN Raise("Futbol24Error", PyStr("parameters must be a dict."))
    ELSE Return(urlencode(SelectSeq(parameters.kv, LAMBDA e : e.val # PyNone)))

\* len(v) > 0: a value without a length raises TypeError
HasItems(v) ==
    CASE v.k = "str" -> Return(v.s # "")
      [] v.k \in {"list", "tuple", "set"} -> Return(v.items # << >>)
      [] v.k = "dict" -> Return(v.kv # << >>)
      [] OTHER -> Raise("TypeError", PyStr("object has no len()"))

\* the path of _build_url: the truthy path elements, joined with "/",
\* after a "/" the path gets when it does not end with one
AddPath(path, path_elements) ==
    IF ~Truthy(path_elements) THEN path
    ELSE LET p == SelectSeq(path_elements.items, Truthy)
             slashed == IF path # << >> /\ path[Len(path)].t = "/"
                        THEN path ELSE Append(path, Tok("/"))
         IN  slashed \o Join(<< Tok("/") >>, [i \in 1..Len(p) |-> << Lit(p[i].s) >>])

\* the query of _build_url, once extra_params is known to be truthy
Merged(query, extra_query) ==
    Return(IF query # << >> THEN query \o << Tok("&") >> \o extra_query ELSE extra_query)

AddQuery(query, extra_params) ==
    Try(HasItems(extra_params), LAMBDA some :
    IF some
    THEN Try(_encode_parameters(extra_params), LAMBDA extra_query : Merged(query, extra_query))
    ELSE Return(query))

WithPathQuery(u, path_elements, query) ==
    Return(urlunparse([u EXCEPT !.path = AddPath(@, path_elements), !.query = query]))

BuildParsed(u, path_elements, extra_params) ==
    IF Truthy(extra_params)
    THEN Try(AddQuery(u.query, extra_params),
             LAMBDA query : WithPathQuery(u, path_elements, query))
    ELSE WithPathQuery(u, path_elements, u.query)

_build_url(url, path_elements, extra_params) ==
    BuildParsed(urlparse(url), path_elements, extra_params)

(***************************************************************************)
(* futbol24/api.py: the slug of a name.  A text is the sequence of the     *)
(* code points of its characters.                                          *)
(***************************************************************************)
\* translation_table, in the order of the dict literal: each character
\* (its code point) with the text that replaces it
translation_table ==
    << KV(32, << 45 >>), KV(47, << 45 >>), KV(92, << 45 >>), KV(8211, << 45 >>),
       KV(40, << >>), KV(41, << >>), KV(46, << >>), KV(39, << >>), KV(186, << >>),
       KV(176, << >>), KV(8216, << >>), KV(8217, << >>), KV(38, << >>),
       KV(225, << 97 >>), KV(224, << 97 >>), KV(228, << 97 >>), KV(226, << 97 >>),
       KV(227, << 97 >>), KV(229, << 97 >>), KV(259, << 97 >>), KV(261, << 97 >>),
       KV(197, << 65 >>), KV(193, << 65 >>), KV(196, << 65 >>), KV(230, << 97, 101 >>),
       KV(263, << 99 >>), KV(269, << 99 >>), KV(231, << 99 >>), KV(199, << 67 >>),
       KV(268, << 67 >>), KV(273, << 100 >>), KV(271, << 100 >>), KV(240, << 100 >>),
       KV(270, << 68 >>), KV(235, << 101 >>), KV(232, << 101 >>), KV(233, << 101 >>),
       KV(234, << 101 >>), KV(283, << 101 >>), KV(279, << 101 >>), KV(281, << 101 >>),
       KV(601, << >>), KV(201, << 101 >>), KV(287, << 103 >>), KV(295, << 104 >>),
       KV(237, << 105 >>), KV(205, << 73 >>), KV(299, << 105 >>), KV(305, << 105 >>),
       KV(238, << 105 >>), KV(239, << 105 >>), KV(236, << 105 >>), KV(304, << 73 >>),
       KV(206, << 73 >>), KV(314, << 108 >>), KV(318, << 108 >>), KV(322, << 108 >>),
       KV(321, << 76 >>), KV(328, << 110 >>), KV(324, << 110 >>), KV(241, << 110 >>),
       KV(326, << 110 >>), KV(209, << 78 >>), KV(248, << 111 >>), KV(246, << 111 >>),
       KV(214, << 79 >>), KV(243, << 111 >>), KV(245, << 111 >>), KV(244, << 111 >>),
       KV(337, << 111 >>), KV(216, << 79 >>), KV(211, << 79 >>),
       KV(339, << 111, 101 >>), KV(341, << 114 >>), KV(345, << 114 >>),
       KV(344, << 82 >>), KV(347, << 115 >>), KV(353, << 115 >>), KV(351, << 115 >>),
       KV(537, << 115 >>), KV(536, << 83 >>), KV(350, << 83 >>), KV(346, << 83 >>),
       KV(352, << 83 >>), KV(223, << 115, 115 >>), KV(357, << 116 >>),
       KV(355, << 116 >>), KV(539, << 116 >>), KV(252, << 117 >>), KV(250, << 117 >>),
       KV(367, << 117 >>), KV(220, << 85 >>), KV(363, << 117 >>), KV(218, << 85 >>),
       KV(371, << 117 >>), KV(253, << 121 >>), KV(382, << 122 >>), KV(380, << 122 >>),
       KV(378, << 122 >>), KV(381, << 90 >>), KV(379, << 90 >>) >>

RECURSIVE Concat(_)
Concat(texts) == IF texts = << >> THEN << >> ELSE texts[1] \o Concat(Tail(texts))

\* a replace that stops after the first occurrence
replace_Once(text, char, repl) ==
    IF \E i \in 1..Len(text) : text[i] = char
    THEN LET i == CHOOSE i \in 1..Len(text) :
                    text[i] = char /\ \A j \in 1..(i - 1) : text[j] # char
         IN  SubSeq(text, 1, i - 1) \o repl \o SubSeq(text, i + 1, Len(text))
    ELSE text

\* text.replace(char, repl) for a one-character char: every occurrence
replace(text, char, repl) ==
    Concat([i \in 1..Len(text) |-> IF text[i] = char THEN repl ELSE << text[i] >>])

\* the loop over translation_table.items(), from entry i on
RECURSIVE ReplaceFrom(_, _)
ReplaceFrom(text, i) ==
    IF i > Len(translation_table) \/ text = << >> THEN text
    ELSE ReplaceFrom(replace(text, translation_table[i].key, translation_table[i].val), i + 1)

_replace_characters(text) == ReplaceFrom(text, 1)

(***************************************************************************)
(* futbol24/api.py: the team page.  A page is the sequence of its items:   *)
(* an element whose text is the caption "Goals in minutes" (its closing    *)
(* tag follows the caption text), other text, and table elements.  A table *)
(* is the sequence of its rows, a row the sequence of its td cells, a cell *)
(* its class tokens and its text nodes.                                    *)
(***************************************************************************)
Caption == [t |-> "caption"]
Text == [t |-> "text"]
Table(rows) == [t |-> "table", rows |-> rows]
Cell(class, text) == [class |-> class, text |-> text]
Html(page) == [kind |-> "html", json |-> PyNone, page |-> page]

PyTuple(xs) == [k |-> "tuple", items |-> xs]

\* the tables that can end the match of
\* r'Goals in minutes.+(?P<table><table.+</table>)': a "<table" with the
\* caption and at least one character before it, and a "</table>" after it
TablesAfterCaption(page) ==
    {j \in 1..Len(page) : page[j].t = "table" /\ \E i \in 1..(j - 1) : page[i].t = "caption"}

\* re.search(...) and group('table'): no match (<< >>), or the one fragment
\* matched.  The first ".+" is greedy: it runs to the last "<table" that the
\* rest of the pattern can still match from
search(page) ==
    IF TablesAfterCaption(page) = {} THEN << >>
    ELSE << page[CHOOSE j \in TablesAfterCaption(page) :
                    \A o \in TablesAfterCaption(page) : o <= j] >>

\* row.xpath('./td[contains(@class, name)]/text()')
xpath(row, name) ==
    Concat([i \in 1..Len(row) |-> IF name \in row[i].class THEN row[i].text ELSE << >>])

\* int(text) of the text of a cell
int(text) ==
    CASE text = "1" -> Return(PyInt(1))
      [] text = "3" -> Return(PyInt(3))
      [] OTHER -> Raise("ValueError", PyStr("invalid literal for int() with base 10"))

\* xs[0]
First(xs) ==
    IF xs = << >> THEN Raise("IndexError", PyStr("list index out of range"))
    ELSE Return(xs[1])

\* goals_in_minutes[str(min_range[0])] = (str(percent[0]), int(goals[0])):
\* the value is evaluated before the key
RowEntry(min_range, percent, goals) ==
    Try(First(percent), LAMBDA p :
    Try(First(goals), LAMBDA g :
    Try(int(g), LAMBDA n :
    Try(First(min_range), LAMBDA m :
    Return(KV(m, PyTuple(<< PyStr(p), n >>)))))))

\* the loop over goal_table_rows
RECURSIVE GoalRows(_, _)
GoalRows(rows, goals_in_minutes) ==
    IF rows = << >> THEN Return(PyDict(goals_in_minutes))
    ELSE Try(RowEntry(xpath(rows[1], "under"), xpath(rows[1], "percent"),
                      xpath(rows[1], "bold")),
             LAMBDA e : GoalRows(Tail(rows), Put(goals_in_minutes, e.key, e.val)))

\* the body of `if goal_stats_html:` and the return
GoalsInMinutes(goal_stats_html) ==
    IF goal_stats_html = << >> THEN Return(PyDict(<< >>))
    ELSE GoalRows(goal_stats_html[1].rows, << >>)

_parse_team_info_http_response(response) ==
    IF ~ok(response)
    THEN Raise("Futbol24Error",
               PyDict(<< KV("message", Fmt(<< PyStr("Error "),
                                              PyInt(response.status_code), PyStr(" "),
                                              PyStr(response.reason) >>)) >>))
    ELSE Try(decode(response.content), LAMBDA html_data :
             GoalsInMinutes(search(html_data.page)))

(***************************************************************************)
(* futbol24/api.py: requests.  A call on the client yields the client      *)
(* after the call, the requests it sent and its outcome.                   *)
(***************************************************************************)
Done(self, requests, out) == [self |-> self, sent |-> requests, out |-> out]

\* requests.get / requests.post of the client: what goes on the wire
Sent(self, method, url) ==
    [method |-> method, url |-> url, headers |-> self._request_headers,
     cookies |-> self._cookies, timeout |-> self._timeout]

\* the GET branch of _request_url, once the URL is built
Got(self, built_url, resp) ==
    IF built_url.exc # "none" THEN Done(self, << >>, built_url)
    ELSE Done(self, << Sent(self, "GET", built_url.val) >>, Return(resp))

\* the json_data branch of _request_url, once the header is set
Posted(self, url, resp) == Done(self, << Sent(self, "POST", url) >>, Return(resp))

\* resp is the answer of the server to the request, if one is sent
_request_url(self, url, method, data, json_data, resp) ==
    IF method = "POST"
    THEN IF Truthy(data) THEN Posted(self, url, resp)
         ELSE IF Truthy(json_data)
         THEN Posted(SetEntry(self, "_request_headers", "Content-Type",
                              PyStr("application/json")), url, resp)
         ELSE Done(self, << >>, Return(PyInt(0)))
    ELSE IF method = "GET" THEN Got(self, _build_url(url, PyNone, data), resp)
    ELSE Done(self, << >>, Return(PyInt(0)))

\* the names of the inputs and their slugs, as text and as code points
Chars ==
    << << "A", << 65 >> >>, << "B C", << 66, 32, 67 >> >>, << "B-C", << 66, 45, 67 >> >> >>
Codes(text) == (CHOOSE e \in Elems(Chars) : e[1] = text)[2]
TextOf(codes) == (CHOOSE e \in Elems(Chars) : e[2] = codes)[1]

\* obj.name of an attribute the object may not have
Attribute(obj, name) ==
    IF obj.k = "obj" /\ HasKey(obj.attrs, name) THEN Return(Get(obj.attrs, name, PyNone))
    ELSE Raise("AttributeError", PyStr("object has no attribute"))

\* self._replace_characters(name): text.replace exists for a str only
Slug(name) ==
    IF name.k = "str" THEN Return(TextOf(_replace_characters(Codes(name.s))))
    ELSE Raise("AttributeError", PyStr("object has no attribute 'replace'"))

\* '{base_url}/team/{country}/{team_name}/'.format(...)
TeamUrl(country, team_name) ==
    Return(<< Lit("https"), Tok("://"), Lit("www.futbol24.com"), Tok("/"), Lit("team"),
              Tok("/"), Lit(country), Tok("/"), Lit(team_name), Tok("/") >>)

\* the url of get_team_info: the country slug is computed first
TeamInfoUrl(team) ==
    Try(Attribute(team, "country"), LAMBDA country :
    Try(Attribute(country, "name"), LAMBDA country_name :
    Try(Slug(country_name), LAMBDA c :
    Try(Attribute(team, "name"), LAMBDA name :
    Try(Slug(name), LAMBDA t : TeamUrl(c, t))))))

\* the request and the parsing of get_team_info
Scraped(requested) ==
    IF requested.out.exc # "none" THEN requested
    ELSE [requested EXCEPT !.out = _parse_team_info_http_response(@.val)]

\* the statements of get_team_info after the url is formatted
RequestedInfo(self, url, resp) ==
    IF url.exc # "none" THEN Done(self, << >>, url)
    ELSE Scraped(_request_url(self, url.val, "GET", PyDict(<< >>), PyNone, resp))

get_team_info(self, team, resp) == RequestedInfo(self, TeamInfoUrl(team), resp)

(***************************************************************************)
(* Bounds and inputs                                                       *)
(***************************************************************************)
MaxInt == 1
MaxKeys == 2
MaxId == 2
MaxList == 2
MaxMatches == 1
MaxParams == 2
MaxText == 3
MaxItems == 3
MaxRows == 2

\* the fields of each class the inputs vary: the first, the last, and one
\* with a default other than None where the class has one
SampleFields(c) ==
    CASE c = "Status" -> {"update_countries", "update_matches"}
      [] c = "Range" -> {"date_d", "end_s"}
      [] c = "Country" -> {"id", "national", "updated"}
      [] c = "Competition" -> {"id", "standings", "updated"}
      [] c = "League" -> {"id", "background", "updated"}
      [] c = "Team" -> {"id", "updated"}
      [] c = "Match" -> {"id", "home", "updated"}

ScalarKinds == {"none", "bool", "int", "str"}

ScalarValues ==
    {PyNone, PyBool(FALSE), PyBool(TRUE), PyStr("x")} \cup {PyInt(n) : n \in 0..MaxInt}

\* lists, dicts and nested records a field can hold
NestedValues ==
    { PyList(<< >>), PyList(<< __init__("Team", << >>) >>),
      PyDict(<< >>), PyDict(<< KV("team_id", PyInt(1)) >>),
      __init__("Team", << >>), __init__("Team", << KV("id", PyInt(1)) >>) }

FieldValues == ScalarValues \cup NestedValues

\* keys that are no field of any class
ExtraKeys == { << >>, << KV("foo", PyInt(1)) >>, << KV("self", PyInt(1)) >> }

\* the dictionary holding the fields of f in param_defaults order, then extra
MakeDict(c, f, extra) ==
    LET pd == param_defaults(c)
        present == SelectSeq(pd, LAMBDA e : e.key \in DOMAIN f)
    IN  [i \in 1..Len(present) |-> KV(present[i].key, f[present[i].key])] \o extra

\* an optional integer key of a raw dictionary: << >> when the dictionary
\* does not carry the key, << n >> when it carries the value n
IdOpts == {<< >>} \cup {<< i >> : i \in 1..MaxId}
\* the ids of listed teams: present, and the -1 a missing team_id defaults to
TeamIds == {<< -1 >>} \cup {<< i >> : i \in 1..MaxId}
OptKV(key, opt) == IF opt = << >> THEN << >> ELSE << KV(key, PyInt(opt[1])) >>

SeqsUpTo(S, n) == UNION {[1..m -> S] : m \in 0..n}

\* the i-th entity of a list carries the i-th name
Names == << "A", "B", "C", "D" >>
NameKV(i) == << KV("name", PyStr(Names[i])) >>

\* Country records as get_countries builds them, one per optional id
CountryList(ids) ==
    [i \in 1..Len(ids) |-> NewCountry(OptKV("id", ids[i]) \o NameKV(i)).val]

\* joined Competition, League and Team records as the join builds them
CompetitionList(ids) ==
    [i \in 1..Len(ids) |->
        _map_competitions(OptKV("id", ids[i]) \o << KV("country_id", PyInt(1)) >> \o NameKV(i),
                          CountryList(<< << 1 >> >>)).val]

LeagueList(ids) ==
    [i \in 1..Len(ids) |->
        _map_leagues(OptKV("id", ids[i]) \o << KV("competition_id", PyInt(1)) >> \o NameKV(i),
                     CompetitionList(<< << 1 >> >>)).val]

TeamList(ids) ==
    [i \in 1..Len(ids) |->
        _map_teams(OptKV("id", ids[i]) \o << KV("country_id", PyInt(1)) >> \o NameKV(i),
                   CountryList(<< << 1 >> >>)).val]

\* the home or guest sub-structure of a raw match: missing, or a dictionary
\* with an optional team_id and a score
SideOpts == {<< >>} \cup {<< t >> : t \in IdOpts}
SideKV(side, opt) ==
    IF opt = << >> THEN << >>
    ELSE << KV(side, PyDict(OptKV("team_id", opt[1]) \o << KV("score", PyInt(0)) >>)) >>

Unset == [exc |-> "unset", msg |-> PyNone, val |-> PyNone]

\* HTTP responses: status line and content
Reason == [s \in {200, 304, 404, 500} |->
             CASE s = 200 -> "OK"
               [] s = 304 -> "Not Modified"
               [] s = 404 -> "Not Found"
               [] s = 500 -> "Internal Server Error"]
Statuses == DOMAIN Reason

Json(doc) == [kind |-> "json", json |-> doc]
Malformed == [kind |-> "malformed", json |-> PyNone]
Undecodable == [kind |-> "undecodable", json |-> PyNone]

Response(status, content) ==
    [status_code |-> status, reason |-> Reason[status], content |-> content]

\* one keyed sub-object of the envelope; a kind without entities is left out
Section(kind, xs) ==
    IF xs = << >> THEN << >>
    ELSE << KV(kind, PyDict(<< KV("list", PyList([i \in 1..Len(xs) |-> PyDict(xs[i])])) >>)) >>

Envelope(sections) == Json(PyDict(<< KV("result", PyDict(sections)) >>))

\* raw countries, one per optional id
RawCountries(ids) == [i \in 1..Len(ids) |-> OptKV("id", ids[i]) \o NameKV(i)]

\* raw entities numbered by position, one per optional foreign key
RawWithFk(key, fks) ==
    [i \in 1..Len(fks) |-> << KV("id", PyInt(i)) >> \o OptKV(key, fks[i])]

\* the foreign key of entity i of a kind: the replaced value for the one
\* entity a fault names, else the consistent one
FkAt(kind, i, fault, consistent) ==
    IF fault.kind = kind /\ fault.at = i THEN fault.fk ELSE consistent

\* raw match j of a response with n entities of each kind: league j, home
\* team j, guest team j + 1, counted cyclically in 1..n
Cyc(j, n) == IF n = 0 THEN 1 ELSE ((j - 1) % n) + 1
RawMatchAt(j, n, fault) ==
    << KV("id", PyInt(j)) >>
      \o OptKV("league_id", FkAt("match_league", j, fault, << Cyc(j, n) >>))
      \o SideKV("home", << FkAt("match_home", j, fault, << Cyc(j, n) >>) >>)
      \o SideKV("guest", << FkAt("match_guest", j, fault, << Cyc(j + 1, n) >>) >>)

CountryBody(ids) == Envelope(Section("countries", RawCountries(ids)))

RefBody(kind, key, ids, fks) ==
    Envelope(Section("countries", RawCountries(ids)) \o Section(kind, RawWithFk(key, fks)))

\* the body of the two match operations: n countries, competitions, leagues
\* and teams and m matches that refer to each other consistently, except for
\* the one foreign key the fault replaces
MatchBody(n, m, fault) ==
    Envelope(Section("countries", RawCountries([i \in 1..n |-> << i >>]))
             \o Section("competitions",
                  RawWithFk("country_id", [i \in 1..n |-> FkAt("competitions", i, fault, << i >>)]))
             \o Section("leagues",
                  RawWithFk("competition_id", [i \in 1..n |-> FkAt("leagues", i, fault, << i >>)]))
             \o Section("teams",
                  RawWithFk("country_id", [i \in 1..n |-> FkAt("teams", i, fault, << i >>)]))
             \o Section("matches", [j \in 1..m |-> RawMatchAt(j, n, fault)]))

FaultKinds == {"competitions", "leagues", "teams", "match_league", "match_home", "match_guest"}
NoFault == [kind |-> "none", at |-> 0, fk |-> << >>]
Faults(n, m) ==
    {NoFault} \cup
    {[kind |-> kd, at |-> i, fk |-> v] :
        kd \in FaultKinds, i \in 1..(IF n < m THEN m ELSE n), v \in IdOpts \cup {<< 0 >>}}

\* the responses an operation can receive whatever its own well-formed
\* bodies are: every status, with a body that is malformed, undecodable, or
\* a small well-formed envelope
CommonResponses ==
    {Response(s, b) : s \in Statuses,
                      b \in {Malformed, Undecodable, CountryBody(<< << 1 >> >>)}}

\* base URLs: scheme and host, then each choice of path (with or without
\* parameters), query and fragment
UrlPaths ==
    { << >>, << Tok("/"), Lit("p") >>, << Tok("/"), Lit("p"), Tok("/") >>,
      << Tok("/"), Lit("p"), Tok(";"), Lit("v") >> }
UrlQueries ==
    { << >>, << Tok("?") >>, << Tok("?"), Pair("a", "1") >>,
      << Tok("?"), Pair("a", "1"), Tok("&"), Pair("b", "2") >> }
UrlFragments == { << >>, << Tok("#"), Lit("f") >> }
BaseUrls ==
    { << Lit("http"), Tok("://"), Lit("h") >> \o p \o q \o f :
        p \in UrlPaths, q \in UrlQueries, f \in UrlFragments }

\* extra parameters: a dictionary of up to MaxParams entries with distinct
\* keys, and values that are no dictionary
ParamKeys == {"x", "y", "z"}
ParamValues == {PyNone, PyStr("1"), PyStr("x y"), PyStr("x&y"), PyInt(0)}
ParamDicts ==
    { PyDict([i \in 1..Len(ks) |-> KV(PyStr(ks[i]), vs[i])]) :
        ks \in {k \in SeqsUpTo(ParamKeys, MaxParams) :
                  \A i, j \in 1..Len(k) : i # j => k[i] # k[j]},
        vs \in [1..MaxParams -> ParamValues] }
NonDicts ==
    { PyList(<< >>), PyList(<< PyStr("a") >>), PyStr(""), PyStr("ab"), PyInt(0), PyInt(5),
      PyBool(FALSE), PyBool(TRUE) }
ExtraParams == {PyNone} \cup ParamDicts \cup NonDicts

PathElements ==
    { PyNone, PyList(<< >>), PyList(<< PyNone >>), PyList(<< PyStr("a") >>),
      PyList(<< PyNone, PyStr("a"), PyStr(""), PyStr("b") >>) }

\* the characters of the names: space, "(", a-umlaut, ae ligature and
\* sharp s (table keys whose replacements have one, no, one, two and two
\* characters), "a" and "-" (ASCII, no keys), and C-acute (no key, not ASCII)
SlugChars == {32, 40, 228, 230, 223, 97, 45, 262}
Texts == SeqsUpTo(SlugChars, MaxText)

\* table rows: complete ones for two minute ranges, one without each of the
\* three cells, and one whose goals are no number
Row(minute, classes, goals) ==
    SelectSeq(<< Cell({"under"}, << minute >>), Cell({"percent"}, << "10%" >>),
                 Cell({"bold"}, << goals >>) >>,
              LAMBDA c : c.class \subseteq classes)
CellClasses == {"under", "percent", "bold"}
TableRows ==
    { Row("0-15", CellClasses, "3"), Row("16-30", CellClasses, "1"),
      Row("0-15", CellClasses, "x") }
      \cup { Row("0-15", CellClasses \ {c}, "3") : c \in CellClasses }
Tables == { Table(rows) : rows \in SeqsUpTo(TableRows, MaxRows) }
Pages == SeqsUpTo({Caption, Text} \cup Tables, MaxItems)

\* the answers to the request of a team page
InfoResponses ==
    { Response(200, Html(page)) : page \in Pages }
      \cup { Response(s, b) : s \in Statuses,
                             b \in {Undecodable,
                                    Html(<< Caption, Table(<< Row("0-15", CellClasses, "3") >>) >>)} }

\* constructor arguments: headers, user agent and timeout left out or given,
\* with each language and with or without the compatibility headers
Languages == {PyNone, PyStr("en"), PyStr("sk")}
GivenArgs ==
    [DefaultArgs EXCEPT !.request_headers = PyDict(<< KV("X-Test", PyStr("1")) >>),
                        !.user_agent = PyStr("ua"), !.timeout = PyInt(5)]
CtorArgs ==
    { [a EXCEPT !.language = l, !.add_compat_f24_headers = c] :
        a \in {DefaultArgs, GivenArgs}, l \in Languages, c \in {PyBool(FALSE), PyBool(TRUE)} }

\* the arguments of _request_url
Methods == {"GET", "POST", "PUT"}
RequestUrls == { << Lit("http"), Tok("://"), Lit("h"), Tok("/"), Lit("p") >> }
RequestData ==
    { PyNone, PyDict(<< >>), PyDict(<< KV(PyStr("x"), PyStr("1")) >>),
      PyList(<< >>), PyList(<< PyStr("a") >>), PyInt(5) }
JsonData == {PyNone, PyStr("{}")}
Answers == {Response(200, Malformed)}

\* teams: joined ones whose name and whose country's name are given or
\* not, and one that was never joined
NameOpts == { << >>, << KV("name", PyStr("A")) >>, << KV("name", PyStr("B C")) >> }
InfoTeams ==
    { _map_teams(<< KV("id", PyInt(1)), KV("country_id", PyInt(1)) >> \o tn,
                 << NewCountry(<< KV("id", PyInt(1)) >> \o cn).val >>).val :
        tn \in NameOpts, cn \in NameOpts }
      \cup { new_from_json_dict("Team", << KV("id", PyInt(1)), KV("name", PyStr("A")) >>,
                                << >>).val }
PageAnswers ==
    { Response(s, b) :
        s \in {200, 404},
        b \in { Undecodable,
                Html(<< Caption, Table(<< Row("0-15", CellClasses, "3") >>) >>) } }

\* dictionaries over the keys id, name, sname (fields of Country,
\* Competition, League and Team alike) and country_id (a field of some):
\* each key left out or with a scalar value
SharedKeys == << "id", "name", "sname", "country_id" >>
SharedValues == {PyNone, PyStr("x")} \cup {PyInt(n) : n \in 0..MaxInt}
SharedDicts ==
    { [i \in 1..Len(ks) |-> KV(ks[i], f[ks[i]])] :
        ks \in {SelectSeq(SharedKeys, LAMBDA key : key \in S) : S \in SUBSET Elems(SharedKeys)},
        f \in [Elems(SharedKeys) -> SharedValues] }

\* the joins whose reference list is the countries
CountryJoins == {"_map_competitions", "_map_teams"}

VARIABLES pc, cls, data, built, proj, other, rebuilt, eq, op, raw, refs, refs2, outcome,
          response, sent, api, args

vars == << pc, cls, data, built, proj, other, rebuilt, eq, op, raw, refs, refs2, outcome,
           response, sent, api, args >>

modelVars == << cls, data, built, proj, other, rebuilt, eq >>
joinVars == << op, raw, refs, refs2, outcome >>
apiVars == << response, sent >>
\* the client and the arguments of its last call
clientVars == << api, args >>

Init ==
    /\ pc = "idle"
    /\ cls = "none"
    /\ data = << >>
    /\ built = Unset
    /\ proj = PyNone
    /\ other = PyNone
    /\ rebuilt = Unset
    /\ eq = "unset"
    /\ op = "none"
    /\ raw = << >>
    /\ refs = << >>
    /\ refs2 = << >>
    /\ outcome = Unset
    /\ response = Response(200, Malformed)
    /\ sent = << >>
    /\ api = Api(DefaultArgs)
    /\ args = << >>

(***************************************************************************)
(* The model records: construction, projection, equality                   *)
(***************************************************************************)
\* record = cls.new_from_json_dict(data)
NewFromJsonDict ==
    /\ pc = "idle"
    /\ \E c \in Classes, extra \in ExtraKeys :
         \E S \in SUBSET SampleFields(c) :
           /\ Cardinality(S) + Len(extra) <= MaxKeys
           /\ \E f \in [S -> FieldValues] :
                /\ cls' = c
                /\ data' = MakeDict(c, f, extra)
                /\ built' = new_from_json_dict(c, data', << >>)
    /\ pc' = "built"
    /\ UNCHANGED << proj, other, rebuilt, eq >>
    /\ UNCHANGED joinVars
    /\ UNCHANGED apiVars
    /\ UNCHANGED clientVars

\* record.as_dict()
AsDict ==
    /\ pc = "built"
    /\ built.exc = "none"
    /\ proj' = PyDict(as_dict(built.val))
    /\ pc' = "projected"
    /\ UNCHANGED << cls, data, built, other, rebuilt, eq >>
    /\ UNCHANGED joinVars
    /\ UNCHANGED apiVars
    /\ UNCHANGED clientVars

\* cls.new_from_json_dict(record.as_dict()) == record
RoundTrip ==
    /\ pc = "projected"
    /\ rebuilt' = new_from_json_dict(cls, proj.kv, << >>)
    /\ eq' = IF __eq__(rebuilt'.val, built.val) THEN "True" ELSE "False"
    /\ pc' = "rebuilt"
    /\ UNCHANGED << cls, data, built, proj, other >>
    /\ UNCHANGED joinVars
    /\ UNCHANGED apiVars
    /\ UNCHANGED clientVars

\* record == other, for a second record of the same class built from the
\* same dictionary with at most one field set to another value
Compare ==
    /\ pc = "built"
    /\ built.exc = "none"
    /\ \E field \in SampleFields(cls), v \in FieldValues :
         other' = new_from_json_dict(cls, Put(data, field, v), << >>).val
    /\ eq' = IF __eq__(built.val, other') THEN "True" ELSE "False"
    /\ pc' = "compared"
    /\ UNCHANGED << cls, data, built, proj, rebuilt >>
    /\ UNCHANGED joinVars
    /\ UNCHANGED apiVars
    /\ UNCHANGED clientVars

NextModel == NewFromJsonDict \/ AsDict \/ RoundTrip \/ Compare

SpecModel == Init /\ [][NextModel]_vars

(***************************************************************************)
(* Equality across types and across joins                                  *)
(***************************************************************************)
\* cls.new_from_json_dict(data) == other_cls.new_from_json_dict(data) for
\* two different classes
CompareTypes ==
    /\ pc = "idle"
    /\ \E c \in Classes, d \in SharedDicts :
         /\ cls' = c
         /\ data' = d
         /\ built' = new_from_json_dict(c, d, << >>)
    /\ \E c \in Classes \ {cls'} :
         other' = new_from_json_dict(c, data', << >>).val
    /\ eq' = IF __eq__(built'.val, other') THEN "True" ELSE "False"
    /\ pc' = "compared_types"
    /\ UNCHANGED << proj, rebuilt >>
    /\ UNCHANGED joinVars
    /\ UNCHANGED apiVars
    /\ UNCHANGED clientVars

\* one raw competition (or team) joined against two lists of one country
\* each, and the two joined records compared
CompareJoined ==
    /\ pc = "idle"
    /\ \E join \in CountryJoins, n \in NameOpts, c1 \in NameOpts, c2 \in NameOpts :
         /\ op' = join
         /\ raw' = << KV("id", PyInt(1)), KV("country_id", PyInt(1)) >> \o n
         /\ refs' = << NewCountry(<< KV("id", PyInt(1)) >> \o c1).val >>
         /\ refs2' = << NewCountry(<< KV("id", PyInt(1)) >> \o c2).val >>
    /\ outcome' = IF op' = "_map_competitions" THEN _map_competitions(raw', refs')
                  ELSE _map_teams(raw', refs')
    /\ other' = IF op' = "_map_competitions" THEN _map_competitions(raw', refs2').val
                ELSE _map_teams(raw', refs2').val
    /\ eq' = IF __eq__(outcome'.val, other') THEN "True" ELSE "False"
    /\ pc' = "compared_joined"
    /\ UNCHANGED << cls, data, built, proj, rebuilt >>
    /\ UNCHANGED apiVars
    /\ UNCHANGED clientVars

NextEq == CompareTypes \/ CompareJoined

SpecEq == Init /\ [][NextEq]_vars

(***************************************************************************)
(* The join steps                                                          *)
(***************************************************************************)
MapCompetitions ==
    /\ pc = "idle"
    /\ \E fk \in IdOpts, ids \in SeqsUpTo(IdOpts, MaxList) :
         /\ raw' = << KV("id", PyInt(1)) >> \o OptKV("country_id", fk)
         /\ refs' = CountryList(ids)
         /\ outcome' = _map_competitions(raw', refs')
    /\ op' = "_map_competitions"
    /\ refs2' = << >>
    /\ pc' = "joined"
    /\ UNCHANGED modelVars
    /\ UNCHANGED apiVars
    /\ UNCHANGED clientVars

MapLeagues ==
    /\ pc = "idle"
    /\ \E fk \in IdOpts, ids \in SeqsUpTo(IdOpts, MaxList) :
         /\ raw' = << KV("id", PyInt(1)) >> \o OptKV("competition_id", fk)
         /\ refs' = CompetitionList(ids)
         /\ outcome' = _map_leagues(raw', refs')
    /\ op' = "_map_leagues"
    /\ refs2' = << >>
    /\ pc' = "joined"
    /\ UNCHANGED modelVars
    /\ UNCHANGED apiVars
    /\ UNCHANGED clientVars

MapTeams ==
    /\ pc = "idle"
    /\ \E fk \in IdOpts, ids \in SeqsUpTo(IdOpts, MaxList) :
         /\ raw' = << KV("id", PyInt(1)) >> \o OptKV("country_id", fk)
         /\ refs' = CountryList(ids)
         /\ outcome' = _map_teams(raw', refs')
    /\ op' = "_map_teams"
    /\ refs2' = << >>
    /\ pc' = "joined"
    /\ UNCHANGED modelVars
    /\ UNCHANGED apiVars
    /\ UNCHANGED clientVars

MapMatches ==
    /\ pc = "idle"
    /\ \E fk \in IdOpts, home \in SideOpts, guest \in SideOpts \ {<< << >> >>},
          lids \in SeqsUpTo(IdOpts \ {<< >>}, MaxList), tids \in SeqsUpTo(TeamIds, MaxList) :
         /\ raw' = << KV("id", PyInt(1)) >> \o OptKV("league_id", fk)
                      \o SideKV("home", home) \o SideKV("guest", guest)
         /\ refs' = LeagueList(lids)
         /\ refs2' = TeamList(tids)
         /\ outcome' = _map_matches(raw', refs', refs2')
    /\ op' = "_map_matches"
    /\ pc' = "joined"
    /\ UNCHANGED modelVars
    /\ UNCHANGED apiVars
    /\ UNCHANGED clientVars

NextJoin == MapCompetitions \/ MapLeagues \/ MapTeams \/ MapMatches

SpecJoin == Init /\ [][NextJoin]_vars

(***************************************************************************)
(* The public operations: each issues one GET and handles the response     *)
(***************************************************************************)
\* self._request_url(url, 'GET', data=parameters): one requests.get
Request(name, team) == [method |-> "GET", url |-> url_of(name, team)]

\* the well-formed bodies each operation is answered with
CountryResponses == {Response(200, CountryBody(ids)) : ids \in SeqsUpTo(IdOpts, MaxList)}

RefResponses(kind) ==
    {Response(200, RefBody(kind, "country_id", ids, fks)) :
        ids \in SeqsUpTo(IdOpts, MaxList), fks \in SeqsUpTo(IdOpts, MaxList)}

MatchResponses ==
    UNION {{Response(200, MatchBody(n, m, fault)) : fault \in Faults(n, m)} :
              n \in 0..MaxList, m \in 0..MaxMatches}

\* each operation: the GET of its URL is answered by one of the responses,
\* which the operation checks and parses
GetCountries ==
    /\ pc = "idle"
    /\ \E r \in CommonResponses \cup CountryResponses :
         /\ response' = r
         /\ outcome' = get_countries(r)
    /\ sent' = Append(sent, Request("get_countries", PyNone))
    /\ op' = "get_countries"
    /\ pc' = "called"
    /\ UNCHANGED << raw, refs, refs2 >>
    /\ UNCHANGED clientVars
    /\ UNCHANGED modelVars

GetCompetitions ==
    /\ pc = "idle"
    /\ \E r \in CommonResponses \cup RefResponses("competitions") :
         /\ response' = r
         /\ outcome' = get_competitions(r)
    /\ sent' = Append(sent, Request("get_competitions", PyNone))
    /\ op' = "get_competitions"
    /\ pc' = "called"
    /\ UNCHANGED << raw, refs, refs2 >>
    /\ UNCHANGED clientVars
    /\ UNCHANGED modelVars

GetTeams ==
    /\ pc = "idle"
    /\ \E r \in CommonResponses \cup RefResponses("teams") :
         /\ response' = r
         /\ outcome' = get_teams(r)
    /\ sent' = Append(sent, Request("get_teams", PyNone))
    /\ op' = "get_teams"
    /\ pc' = "called"
    /\ UNCHANGED << raw, refs, refs2 >>
    /\ UNCHANGED clientVars
    /\ UNCHANGED modelVars

GetDailyMatches ==
    /\ pc = "idle"
    /\ \E r \in CommonResponses \cup MatchResponses :
         /\ response' = r
         /\ outcome' = get_daily_matches(r)
    /\ sent' = Append(sent, Request("get_daily_matches", PyNone))
    /\ op' = "get_daily_matches"
    /\ pc' = "called"
    /\ UNCHANGED << raw, refs, refs2 >>
    /\ UNCHANGED clientVars
    /\ UNCHANGED modelVars

GetTeamMatches ==
    \E team \in Elems(TeamList(<< << 1 >> >>)) :
        /\ pc = "idle"
        /\ \E r \in CommonResponses \cup MatchResponses :
             /\ response' = r
             /\ outcome' = get_team_matches(team, r)
        /\ sent' = Append(sent, Request("get_team_matches", team))
        /\ op' = "get_team_matches"
        /\ pc' = "called"
        /\ UNCHANGED << raw, refs, refs2 >>
        /\ UNCHANGED clientVars
        /\ UNCHANGED modelVars

NextApi == GetCountries \/ GetCompetitions \/ GetTeams \/ GetDailyMatches \/ GetTeamMatches

SpecApi == Init /\ [][NextApi]_vars

(***************************************************************************)
(* URL building                                                            *)
(***************************************************************************)
\* self._build_url(url, path_elements, extra_params)
BuildUrl ==
    /\ pc = "idle"
    /\ \E url \in BaseUrls, path_elements \in PathElements, extra_params \in ExtraParams :
         /\ args' = [url |-> url, path_elements |-> path_elements,
                     extra_params |-> extra_params]
         /\ outcome' = _build_url(url, path_elements, extra_params)
    /\ op' = "_build_url"
    /\ pc' = "url_built"
    /\ UNCHANGED << raw, refs, refs2, api >>
    /\ UNCHANGED modelVars
    /\ UNCHANGED apiVars

NextUrl == BuildUrl

SpecUrl == Init /\ [][NextUrl]_vars

(***************************************************************************)
(* The slug of a name                                                      *)
(***************************************************************************)
\* Api._replace_characters(text)
ReplaceCharacters ==
    /\ pc = "idle"
    /\ \E text \in Texts :
         /\ args' = [text |-> text]
         /\ outcome' = Return(_replace_characters(text))
    /\ op' = "_replace_characters"
    /\ pc' = "slugged"
    /\ UNCHANGED << raw, refs, refs2, api >>
    /\ UNCHANGED modelVars
    /\ UNCHANGED apiVars

NextSlug == ReplaceCharacters

SpecSlug == Init /\ [][NextSlug]_vars

(***************************************************************************)
(* The team page                                                           *)
(***************************************************************************)
\* Api._parse_team_info_http_response(response)
ParseTeamInfoHttpResponse ==
    /\ pc = "idle"
    /\ \E r \in InfoResponses :
         /\ response' = r
         /\ outcome' = _parse_team_info_http_response(r)
    /\ op' = "_parse_team_info_http_response"
    /\ pc' = "parsed"
    /\ UNCHANGED << raw, refs, refs2, sent >>
    /\ UNCHANGED modelVars
    /\ UNCHANGED clientVars

NextInfo == ParseTeamInfoHttpResponse

SpecInfo == Init /\ [][NextInfo]_vars

(***************************************************************************)
(* The client: construction, then calls in any order                       *)
(***************************************************************************)
\* api = Api(...)
Construct ==
    /\ pc = "idle"
    /\ \E a \in CtorArgs :
         /\ args' = a
         /\ api' = Api(a)
    /\ op' = "__init__"
    /\ pc' = "ready"
    /\ UNCHANGED << raw, refs, refs2, outcome >>
    /\ UNCHANGED modelVars
    /\ UNCHANGED apiVars

\* api.set_user_agent(user_agent)
SetUserAgent ==
    /\ pc = "ready"
    /\ \E user_agent \in {PyStr("ua2")} :
         /\ args' = [user_agent |-> user_agent]
         /\ api' = set_user_agent(api, user_agent)
    /\ outcome' = Return(PyNone)
    /\ sent' = << >>
    /\ op' = "set_user_agent"
    /\ pc' = "ready"
    /\ UNCHANGED << raw, refs, refs2, response >>
    /\ UNCHANGED modelVars

\* api._request_url(url, method, data=data, json_data=json_data)
RequestUrl ==
    /\ pc = "ready"
    /\ \E url \in RequestUrls, method \in Methods, d \in RequestData, json_data \in JsonData,
          r \in Answers :
         /\ args' = [url |-> url, method |-> method, data |-> d, json_data |-> json_data]
         /\ response' = r
         /\ \E done \in {_request_url(api, url, method, d, json_data, r)} :
              /\ api' = done.self
              /\ sent' = done.sent
              /\ outcome' = done.out
    /\ op' = "_request_url"
    /\ pc' = "ready"
    /\ UNCHANGED << raw, refs, refs2 >>
    /\ UNCHANGED modelVars

\* api.get_team_info(team)
GetTeamInfo ==
    /\ pc = "ready"
    /\ \E team \in InfoTeams, r \in PageAnswers :
         /\ args' = [team |-> team]
         /\ response' = r
         /\ \E done \in {get_team_info(api, team, r)} :
              /\ api' = done.self
              /\ sent' = done.sent
              /\ outcome' = done.out
    /\ op' = "get_team_info"
    /\ pc' = "ready"
    /\ UNCHANGED << raw, refs, refs2 >>
    /\ UNCHANGED modelVars

\* the operations on the default client, and the calls on a constructed one
NextClient ==
    \/ GetCountries \/ GetCompetitions \/ GetTeams \/ GetDailyMatches \/ GetTeamMatches
    \/ Construct \/ SetUserAgent \/ RequestUrl \/ GetTeamInfo

SpecClient == Init /\ [][NextClient]_vars

(***************************************************************************)
(* Properties of the join                                                  *)
(***************************************************************************)
Joined == pc = "joined" /\ outcome.exc = "none"

\* the value the record reads for a foreign key of the raw dictionary
RawFk(key) == Get(raw, key, PyNone)
RawTeamId(side) == Get(Get(raw, side, PyDict(<< >>)).kv, "team_id", PyNone)

\* the entity the join stored on the returned record
Attached(attr) == getattr(outcome.val, attr)
AttachedTeam(side) == Get(getattr(outcome.val, side).kv, "team", PyNone)

IdIs(x, ident) == PyEq(getattr(x, "id"), ident)
WithId(xs, ident) == {i \in 1..Len(xs) : IdIs(xs[i], ident)}
FirstWithId(xs, ident) == xs[CHOOSE i \in WithId(xs, ident) : \A j \in WithId(xs, ident) : i <= j]

\* the foreign key and the attribute of the one-reference joins
FkOf == [_map_competitions |-> "country_id", _map_leagues |-> "competition_id",
         _map_teams |-> "country_id"]
AttrOf == [_map_competitions |-> "country", _map_leagues |-> "competition",
           _map_teams |-> "country"]

\* C1: whenever a join returns, the entity it attached is an element of the
\* co-delivered list whose id equals the raw foreign key: Match.league
\* against league_id, the home and guest team against their team_id, and
\* Competition.country, League.competition, Team.country against their *_id.
C1_JoinCorrectness ==
    Joined =>
      IF op = "_map_matches"
      THEN /\ Attached("league") \in Elems(refs)
           /\ IdIs(Attached("league"), RawFk("league_id"))
           /\ \A side \in {"home", "guest"} :
                /\ AttachedTeam(side) \in Elems(refs2)
                /\ IdIs(AttachedTeam(side), RawTeamId(side))
      ELSE /\ Attached(AttrOf[op]) \in Elems(refs)
           /\ IdIs(Attached(AttrOf[op]), RawFk(FkOf[op]))

\* a match joined against lists of two leagues and two teams, where the
\* league is not the first of its list and the two sides got different teams
C1_Witness ==
    /\ Joined
    /\ op = "_map_matches"
    /\ Len(refs) = 2 /\ Len(refs2) = 2
    /\ Attached("league") = refs[2]
    /\ AttachedTeam("home") # AttachedTeam("guest")

\* C2 as stated: a raw entity whose foreign key is absent from the reference
\* list, or that carries no foreign-key field at all, makes the join raise.
Dangling(key, xs) == ~HasKey(raw, key) \/ WithId(xs, RawFk(key)) = {}
DanglingSide(side) ==
    \/ ~HasKey(raw, side)
    \/ ~HasKey(Get(raw, side, PyNone).kv, "team_id")
    \/ WithId(refs2, RawTeamId(side)) = {}
C2_JoinFailure ==
    pc = "joined" =>
      IF op = "_map_matches"
      THEN (Dangling("league_id", refs) \/ DanglingSide("home") \/ DanglingSide("guest"))
               => outcome.exc # "none"
      ELSE Dangling(FkOf[op], refs) => outcome.exc # "none"

\* C3: when the reference list holds several entities with the referenced
\* id, the join raises no error and attaches the first of them in list order.
C3_FirstDuplicate ==
    pc = "joined" =>
      IF op = "_map_matches"
      THEN Joined =>
             /\ Attached("league") = FirstWithId(refs, RawFk("league_id"))
             /\ \A side \in {"home", "guest"} :
                  AttachedTeam(side) = FirstWithId(refs2, RawTeamId(side))
      ELSE WithId(refs, RawFk(FkOf[op])) # {} =>
             /\ outcome.exc = "none"
             /\ Attached(AttrOf[op]) = FirstWithId(refs, RawFk(FkOf[op]))

\* a match joined where both leagues carry the referenced id and both teams
\* carry the home team's id
C3_Witness ==
    /\ Joined
    /\ op = "_map_matches"
    /\ Cardinality(WithId(refs, RawFk("league_id"))) = 2
    /\ Cardinality(WithId(refs2, RawTeamId("home"))) = 2

\* a value built of plain data only: no record object anywhere inside
RECURSIVE Plain(_)
Plain(v) ==
    CASE v.k \in ScalarKinds -> TRUE
      [] v.k = "list" -> \A i \in 1..Len(v.items) : Plain(v.items[i])
      [] v.k = "dict" -> \A i \in 1..Len(v.kv) : Plain(v.kv[i].val)
      [] v.k = "obj" -> FALSE

IsPlainDict(v) == v.k = "dict" /\ Plain(v)

\* C10 as stated: the projection of a joined record holds the attached
\* entity as a nested dictionary of plain values (the team inside home and
\* guest for a match).
C10_JoinedProjection ==
    Joined =>
      LET d == as_dict(outcome.val)
      IN  IF op = "_map_matches"
          THEN /\ IsPlainDict(Get(d, "league", PyNone))
               /\ \A side \in {"home", "guest"} :
                    /\ Get(d, side, PyNone).k = "dict"
                    /\ IsPlainDict(Get(Get(d, side, PyNone).kv, "team", PyNone))
          ELSE IsPlainDict(Get(d, AttrOf[op], PyNone))

(***************************************************************************)
(* Properties of the model records                                         *)
(***************************************************************************)
IsField(c, key) == HasKey(param_defaults(c), key)
Default(c, key) == Get(param_defaults(c), key, PyNone)

\* C6 as stated, for dictionaries of scalar values: the projection holds
\* exactly the known fields supplied with a value other than the default,
\* each with the supplied value.
C6_ProjectionExact ==
    (pc = "projected" /\ \A i \in 1..Len(data) : data[i].val.k \in ScalarKinds) =>
      Elems(proj.kv) =
        {data[i] : i \in {j \in 1..Len(data) :
                            /\ IsField(cls, data[j].key)
                            /\ ~PyEq(data[j].val, Default(cls, data[j].key))}}

\* C7 as stated: the record rebuilt from the projection equals the record.
C7_RoundTripEqual == pc = "rebuilt" => eq = "True"

\* two field values differ: by Python's == for scalars, structurally otherwise
Differ(a, b) ==
    IF a.k \in ScalarKinds /\ b.k \in ScalarKinds THEN ~PyEq(a, b) ELSE a # b

\* C8 as stated: two records of one type compare equal exactly when no
\* field differs.
C8_EqualityByFields ==
    pc = "compared" =>
      (eq = "True" <=>
         \A i \in 1..Len(built.val.attrs) :
            ~Differ(built.val.attrs[i].val, other.attrs[i].val))

\* C9 as stated: construction from any dictionary returns a record whose
\* fields hold the supplied value, or the default when the key is missing.
C9_ConstructionTotal ==
    pc = "built" =>
      /\ built.exc = "none"
      /\ \A i \in 1..Len(param_defaults(cls)) :
           LET key == param_defaults(cls)[i].key
           IN  getattr(built.val, key) = Get(data, key, Default(cls, key))

(***************************************************************************)
(* Properties of the HTTP response checks                                  *)
(***************************************************************************)
Success(status) == 200 <= status /\ status <= 299

\* C4 as stated: a response whose status is not 2xx makes the operation
\* raise Futbol24Error with the status code and the reason phrase in the
\* message, and return no entities.
C4_NonSuccessRaises ==
    (pc = "called" /\ ~Success(response.status_code)) =>
      /\ outcome.exc = "Futbol24Error"
      /\ outcome.msg.k = "dict"
      /\ LET message == Get(outcome.msg.kv, "message", PyNone)
         IN  /\ message.k = "fmt"
             /\ PyInt(response.status_code) \in Elems(message.parts)
             /\ PyStr(response.reason) \in Elems(message.parts)

\* C5 as stated: a successful response whose body is not well-formed JSON
\* makes the operation raise Futbol24Error("Invalid JSON content").
C5_MalformedJsonRaises ==
    (pc = "called" /\ Success(response.status_code)
       /\ response.content.kind = "malformed") =>
      /\ outcome.exc = "Futbol24Error"
      /\ outcome.msg = PyDict(<< KV("message", PyStr("Invalid JSON content")) >>)

(***************************************************************************)
(* Properties of URL building                                              *)
(***************************************************************************)
\* the entries of a parameter dictionary that carry a value, each as its
\* url-encoded key=value pair
EncodedPairs(kv) ==
    LET kept == SelectSeq(kv, LAMBDA e : e.val # PyNone)
    IN  [i \in 1..Len(kept) |->
           << Pair(quote_plus(str(kept[i].key)), quote_plus(str(kept[i].val))) >>]

\* a query followed by pairs, all joined by single "&"
Followed(query, pairs) ==
    IF pairs = << >> THEN query
    ELSE IF query = << >> THEN Join(<< Tok("&") >>, pairs)
    ELSE query \o << Tok("&") >> \o Join(<< Tok("&") >>, pairs)

\* C11: for every base URL and every dictionary of extra parameters, the
\* query of the URL _build_url returns is the original query followed by
\* one url-encoded key=value pair per entry whose value is not None, all
\* joined by a single "&"; a None-valued entry leaves no trace (no key, no
\* empty pair, no dangling separator).
C11_QueryMerge ==
    (pc = "url_built" /\ args.extra_params.k = "dict")
      => /\ outcome.exc = "none"
         /\ urlparse(outcome.val).query
              = Followed(urlparse(args.url).query, EncodedPairs(args.extra_params.kv))

(***************************************************************************)
(* Properties of the slug                                                  *)
(***************************************************************************)
\* C12: for every input name the slug _replace_characters returns is
\* ASCII-only, whatever characters the name contains.
C12_SlugAscii ==
    pc = "slugged" => \A i \in 1..Len(outcome.val) : outcome.val[i] < 128

\* the replacement of one character by the table: its value for a key, the
\* character itself otherwise
TableKeys == {translation_table[i].key : i \in 1..Len(translation_table)}
Substituted(c) == IF c \in TableKeys THEN Get(translation_table, c, << >>) ELSE << c >>

\* C13: _replace_characters returns the character-by-character substitution
\* the table defines (a key replaced by its value, any other character
\* kept, order preserved): the sequential replace loop equals the
\* simultaneous mapping, and no character of a replacement is a key that
\* a later entry would substitute again.
C13_SlugIsSubstitution ==
    pc = "slugged"
      => /\ outcome.val = Concat([i \in 1..Len(args.text) |-> Substituted(args.text[i])])
         /\ \A i, j \in 1..Len(translation_table) :
              i < j => translation_table[j].key \notin Elems(translation_table[i].val)

\* a name with a repeated key whose replacement has two characters, next to
\* a character that is no key
C13_Witness ==
    /\ pc = "slugged"
    /\ args.text = << 230, 97, 230 >>
    /\ outcome.val = << 97, 101, 97, 97, 101 >>

(***************************************************************************)
(* Properties of the team page                                             *)
(***************************************************************************)
\* a successful response with a page
Successful == ok(response) /\ response.content.kind = "html"

\* a row without an under, percent or bold cell
LacksCell(row) == \E c \in CellClasses : xpath(row, c) = << >>

\* the page lacks the expected markup: no caption, no table after the
\* caption, or a row of the parsed table without one of the three cells
LacksMarkup(page) ==
    \/ search(page) = << >>
    \/ \E i \in 1..Len(search(page)[1].rows) : LacksCell(search(page)[1].rows[i])

\* C14: for a successful response whose page lacks the expected markup (no
\* caption, no table after it, or a row without an under, percent or bold
\* cell), _parse_team_info_http_response raises no error, and returns the
\* empty mapping when the caption or the table is missing.
C14_MissingMarkupIsEmpty ==
    (pc = "parsed" /\ Successful /\ LacksMarkup(response.content.page))
      => /\ outcome.exc = "none"
         /\ search(response.content.page) = << >> => outcome.val = PyDict(<< >>)

\* the first table element after the first caption
NextTable(page) ==
    page[CHOOSE j \in TablesAfterCaption(page) : \A o \in TablesAfterCaption(page) : j <= o]

\* C15: when the page has the caption and a table after it, the result of
\* _parse_team_info_http_response is the one of the rows of the next table
\* after the caption, also when further tables follow: no row of a later
\* table contributes.
C15_NextTableParsed ==
    (pc = "parsed" /\ Successful /\ TablesAfterCaption(response.content.page) # {})
      => outcome = GoalRows(NextTable(response.content.page).rows, << >>)

(***************************************************************************)
(* Properties of the client                                                *)
(***************************************************************************)
PublicOperations ==
    {"get_countries", "get_competitions", "get_teams", "get_daily_matches",
     "get_team_matches", "get_team_info"}
RequestOperations == PublicOperations \cup {"_request_url"}

\* C16: no request operation (a get_* call, or _request_url with GET or
\* POST, with form data or JSON data) changes the header map, the cookie
\* map, the base URL or the timeout of the client; set_user_agent changes
\* the header map only, and there only the User-Agent entry.
C16_ConfigReadOnly ==
    [][/\ op' \in RequestOperations
          => /\ api'._request_headers = api._request_headers
             /\ api'._cookies = api._cookies
             /\ api'.base_url = api.base_url
             /\ api'._timeout = api._timeout
       /\ op' = "set_user_agent"
          => /\ Del(api'._request_headers, "User-Agent") = Del(api._request_headers, "User-Agent")
             /\ api'._cookies = api._cookies
             /\ api'.base_url = api.base_url
             /\ api'._timeout = api._timeout]_vars

\* C17: every call of a public operation issues exactly one HTTP request
\* and then returns or raises; a non-success status and an undecodable body
\* reach the caller as the error raised for them.
C17_OneRequest ==
    (pc \in {"called", "ready"} /\ op \in PublicOperations)
      => /\ Len(sent) = 1
         /\ outcome.exc # "unset"
         /\ ~ok(response) => outcome.exc = "Futbol24Error"
         /\ (ok(response) /\ response.content.kind = "undecodable")
              => outcome.exc = "UnicodeDecodeError"

\* C18: a GET through _request_url whose query parameters are neither None
\* nor a dictionary (empty or not) raises Futbol24Error, and no request is
\* issued.
C18_NonDictRejected ==
    (pc = "ready" /\ op = "_request_url" /\ args.method = "GET"
       /\ args.data # PyNone /\ args.data.k # "dict")
      => /\ outcome.exc = "Futbol24Error"
         /\ sent = << >>

\* C19: two clients constructed with different language codes, all other
\* arguments equal, have different cookie maps (the maps their requests
\* carry).
C19_LanguageCookie ==
    (pc = "ready" /\ op = "__init__" /\ args.language # PyNone)
      => \A l \in Languages \ {PyNone, args.language} :
            Api([args EXCEPT !.language = l])._cookies # api._cookies

(***************************************************************************)
(* Properties of the match operations                                      *)
(***************************************************************************)
\* the parsed document of the response, and its raw entities of a kind
Document == loads(decode(response.content).val).val
Raws(kind) == EnvelopeList(Document, kind)

\* raw entity e carries under key a reference that is the id of no raw
\* entity of the kind referred to
Unresolved(e, key, kind) ==
    /\ HasKey(e, key)
    /\ \A i \in 1..Len(Raws(kind)) : Get(Raws(kind)[i], "id", PyNone) # Get(e, key, PyNone)

UnresolvedSide(match, side) ==
    /\ HasKey(match, side)
    /\ Unresolved(Get(match, side, PyNone).kv, "team_id", "teams")

\* the entities of the response that carry an unresolvable reference
DanglingRefs(kind, key, target) ==
    {i \in 1..Len(Raws(kind)) : Unresolved(Raws(kind)[i], key, target)}
DanglingMatches ==
    {j \in 1..Len(Raws("matches")) :
        \/ Unresolved(Raws("matches")[j], "league_id", "leagues")
        \/ UnresolvedSide(Raws("matches")[j], "home")
        \/ UnresolvedSide(Raws("matches")[j], "guest")}

\* a well-formed response to one of the two match operations
MatchesParsed ==
    /\ pc = "called"
    /\ op \in {"get_daily_matches", "get_team_matches"}
    /\ ok(response)
    /\ response.content.kind = "json"

\* C20: get_daily_matches and get_team_matches are all-or-nothing: when a
\* competition, league, team or match of the response carries a reference
\* that does not resolve, the operation raises and returns no Matches, also
\* when no match refers to the entity; without such an entity the
\* entities are resolved in the order countries, competitions, leagues,
\* teams, matches and every match of the response is returned.
C20_AllOrNothing ==
    MatchesParsed
      => /\ (\/ DanglingRefs("competitions", "country_id", "countries") # {}
             \/ DanglingRefs("leagues", "competition_id", "competitions") # {}
             \/ DanglingRefs("teams", "country_id", "countries") # {}
             \/ DanglingMatches # {})
              => (outcome.exc = "IndexError" /\ outcome.val = PyNone)
         /\ outcome.exc = "none"
              => /\ outcome.val.k = "matches"
                 /\ Len(outcome.val.items) = Len(Raws("matches"))

\* the second of two leagues refers to no competition of the response, the
\* one match refers to the first league, and the operation raised
C20_Witness ==
    /\ MatchesParsed
    /\ Len(Raws("matches")) = 1
    /\ DanglingRefs("leagues", "competition_id", "competitions") = {2}
    /\ Get(Raws("matches")[1], "league_id", PyNone) = Get(Raws("leagues")[1], "id", PyNone)
    /\ DanglingMatches = {}
    /\ outcome.exc = "IndexError"

(***************************************************************************)
(* Properties of equality across types and joins                           *)
(***************************************************************************)
\* C21: two records of different types built from the same dictionary
\* never compare equal, and two joined records of one type that differ in
\* the related object the join attached compare unequal.
C21_EqualityDistinguishes ==
    /\ pc = "compared_types" => eq = "False"
    /\ (pc = "compared_joined"
          /\ getattr(outcome.val, "country") # getattr(other, "country"))
         => eq = "False"
====
